---- MODULE Spec2Model ----
(***************************************************************************)
(* A model of OpenCSGRenderer (src/glview/preview/OpenCSGRenderer.cc).     *)
(*                                                                         *)
(* The renderer holds three optional product groups (root, highlights,     *)
(* background).  draw() either walks the groups and issues GL commands     *)
(* directly (immediate path) or replays the per-product lists built once   *)
(* by prepare() (buffer-build path, Feature::ExperimentalVxORenderers).    *)
(*                                                                         *)
(* The GL context and the OpenCSG library are external: the model records  *)
(* the commands sent to them, in order, in `trace`.  Shader program        *)
(* binding (glUseProgram, shader attributes) is not recorded.              *)
(***************************************************************************)
EXTENDS Integers, Sequences, FiniteSets, TLC

VARIABLES
  root_products,        \* OpenCSGRenderer::root_products (NoGroup: null pointer)
  highlights_products,  \* OpenCSGRenderer::highlights_products
  background_products,  \* OpenCSGRenderer::background_products
  vxo,                  \* Feature::ExperimentalVxORenderers.is_enabled()
  indexing,             \* Feature::ExperimentalVxORenderersIndexing.is_enabled()
  vbo_vertex_products,  \* retained per-product [primitives, states] (buffer-build path)
  all_vbos_,            \* buffer handles tracked by the renderer
  gl_buffers,           \* number of buffer handles glGenBuffers has handed out so far
  aborted,              \* an assert(false) was hit: the process is gone
  lastOp,               \* the call that produced the current state
  lastArgs,             \* the arguments of that call
  trace,                \* the commands issued by that call, in order
  bbox                  \* the value returned by the last getBoundingBox()

vars == <<root_products, highlights_products, background_products, vxo, indexing,
          vbo_vertex_products, all_vbos_, gl_buffers, aborted, lastOp, lastArgs,
          trace, bbox>>

tree == <<root_products, highlights_products, background_products, vxo, indexing>>
persistent == <<vbo_vertex_products, all_vbos_, gl_buffers>>

(***************************************************************************)
(* Bounds of the model.                                                    *)
(***************************************************************************)
\* products in the whole tree (all three groups together)
MaxProducts == 2
\* leaves in the whole tree
MaxLeaves == 2

(***************************************************************************)
(* Data.                                                                   *)
(***************************************************************************)
\* alpha is kept in tenths: Opaque stands for the 1.0f the code compares with
Opaque == 10
AlphaValues == {5, Opaque}

\* Eigen::AlignedBox, one axis of it: empty is (min, max) = (+Big, -Big)
Big == 9
EmptyBox == [min |-> Big, max |-> 0 - Big]

\* a null std::shared_ptr<CSGProducts>
NoGroup == [present |-> FALSE, products |-> <<>>, bbox |-> EmptyBox]

\* leaf->geom: null, a PolySet, or some other Geometry
Geoms == {"null", "PolySet", "other"}

\* A leaf.  color.alpha is the alpha the colour resolver yields for the leaf
\* in the mode of its group, color.resolves whether the resolver overrides
\* the colour at all; surface_ok whether create_surface appends a surface
\* state for the leaf.
NominalLeaves ==
  { [geom |-> g, color |-> [alpha |-> a, resolves |-> TRUE], surface_ok |-> TRUE, index |-> 0] :
      g \in {"PolySet"}, a \in AlphaValues }
  \cup
  { [geom |-> g, color |-> [alpha |-> Opaque, resolves |-> TRUE], surface_ok |-> TRUE, index |-> 0] :
      g \in {"null", "other"} }

SeqsOfLen(S, n) == [1..n -> S]

\* products with exactly n leaves
ProductsOfSize(L, n) ==
  UNION { { [intersections |-> i, subtractions |-> s] :
              i \in SeqsOfLen(L, a), s \in SeqsOfLen(L, n - a) } : a \in 0..n }

ProductSize(p) == Len(p.intersections) + Len(p.subtractions)

RECURSIVE GroupSize(_)
GroupSize(ps) == IF ps = <<>> THEN 0 ELSE ProductSize(Head(ps)) + GroupSize(Tail(ps))

\* product lists of exactly k products and at most n leaves
RECURSIVE ProductLists(_, _, _)
ProductLists(L, k, n) ==
  IF k = 0 THEN { <<>> }
  ELSE UNION { { <<p>> \o rest : rest \in ProductLists(L, k - 1, n - ProductSize(p)) } :
                 p \in UNION { ProductsOfSize(L, m) : m \in 0..n } }

\* a group: absent, or lo..k products with the box CSGProducts::getBoundingBox() gives
Groups(L, lo, k, n, boxes) ==
  { [present |-> TRUE, products |-> ps, bbox |-> b] :
      ps \in UNION { ProductLists(L, j, n) : j \in lo..k }, b \in boxes }
  \cup { NoGroup }

NumProducts(g) == Len(g.products)
NumLeaves(g) == GroupSize(g.products)

\* leaf->index: every leaf of the tree gets an index of its own
NumberLeaves(ls, base) == [k \in 1..Len(ls) |-> [ls[k] EXCEPT !.index = base + k]]

NumberProduct(p, base) ==
  [intersections |-> NumberLeaves(p.intersections, base),
   subtractions |-> NumberLeaves(p.subtractions, base + Len(p.intersections))]

RECURSIVE NumberProducts(_, _)
NumberProducts(ps, base) ==
  IF ps = <<>> THEN <<>>
  ELSE <<NumberProduct(Head(ps), base)>> \o NumberProducts(Tail(ps), base + ProductSize(Head(ps)))

NumberGroup(g, base) ==
  [g EXCEPT !.products = NumberProducts(g.products, base)]

(***************************************************************************)
(* The commands sent to the GL context and to OpenCSG.                     *)
(***************************************************************************)
Ev(op, arg, leaf) == [op |-> op, arg |-> arg, leaf |-> leaf, prims |-> <<>>, rgb |-> <<>>]

\* OpenCSG::render(primitives)
EvRender(prims) == [op |-> "OpenCSG::render", arg |-> "", leaf |-> 0, prims |-> prims, rgb |-> <<>>]

\* glUniform3f(identifier, r, g, b); the channels are kept as the bytes that
\* the code divides by 255.0f
EvUniform(rgb) == [op |-> "glUniform3f", arg |-> "identifier", leaf |-> 0, prims |-> <<>>, rgb |-> rgb]

\* a surface of leaf `leaf` is drawn (render_surface, or a VertexState's draw call)
EvSurface(leaf) == Ev("surface", "", leaf)

RECURSIVE Flatten(_)
Flatten(ss) == IF ss = <<>> THEN <<>> ELSE Head(ss) \o Flatten(Tail(ss))

MapSeq(f(_), s) == [k \in 1..Len(s) |-> f(s[k])]

\* body(v), with v evaluated once
Bind(v, body(_)) == CHOOSE y \in { body(x) : x \in {v} } : TRUE

(***************************************************************************)
(* Helpers shared by both paths.                                           *)
(***************************************************************************)
\* if (csgobj.leaf->geom)
HasGeomMutant(csgobj) == TRUE
HasGeom(csgobj) == csgobj.geom # "null"

\* dynamic_cast<const PolySet *>(csgobj.leaf->geom.get())
IsPolySetMutant(csgobj) == csgobj.geom # "null"
IsPolySet(csgobj) == csgobj.geom = "PolySet"

\* color[3] == 1.0f
IsOpaqueMutant(alpha) == alpha > 0
IsOpaque(alpha) == alpha = Opaque

\* primitives.size() > 1
NeedsCompositingMutant(prims) == Len(prims) > 0
NeedsCompositingOverTwo(prims) == Len(prims) > 2
NeedsCompositing(prims) == Len(prims) > 1

\* ((identifier >> 0) & 0xff), ((identifier >> 8) & 0xff), ((identifier >> 16) & 0xff)
IdentifierMutant(index) == << (index \div 1) % 256, (index \div 256) % 256, (index \div 256) % 256 >>
Identifier(index) == << (index \div 1) % 256, (index \div 256) % 256, (index \div 65536) % 256 >>

\* shaderinfo && shaderinfo->type == SELECT_RENDERING
SelectUpload(shaderinfo, index) ==
  IF shaderinfo = "SELECT_RENDERING" THEN << EvUniform(Identifier(index)) >> ELSE <<>>

(***************************************************************************)
(* The immediate path: renderCSGProducts without ExperimentalVxORenderers. *)
(***************************************************************************)
\* the value setColor(colormode, c.data(), shaderinfo) returns
setColor(colormode, c) == c.alpha

ImmediateIntersectionColorModeMutant(highlight_mode, background_mode) ==
  IF background_mode THEN "BACKGROUND" ELSE IF highlight_mode THEN "HIGHLIGHT" ELSE "MATERIAL"
ImmediateIntersectionColorMode(highlight_mode, background_mode) ==
  IF highlight_mode THEN "HIGHLIGHT" ELSE IF background_mode THEN "BACKGROUND" ELSE "MATERIAL"

ImmediateSubtractionColorMode(highlight_mode, background_mode) ==
  IF highlight_mode THEN "HIGHLIGHT" ELSE IF background_mode THEN "BACKGROUND" ELSE "CUTOUT"

\* the primitive createCSGPrimitive builds: geom is set only for a PolySet
createCSGPrimitive(csgobj, operation) ==
  [operation |-> operation, leaf |-> csgobj.index, geom |-> IsPolySet(csgobj)]

\* OpenCSGPrim::render(), the callback the compositor runs on a primitive
OpenCSGPrim_render(prim) ==
  IF prim.geom
  THEN << Ev("glPushMatrix", "", prim.leaf), Ev("render_surface", "", prim.leaf),
          Ev("glPopMatrix", "", prim.leaf) >>
  ELSE <<>>

ImmediatePrimitives(product) ==
  LET i == SelectSeq(product.intersections, HasGeom)
      s == SelectSeq(product.subtractions, HasGeom)
  IN  [k \in 1..Len(i) |-> createCSGPrimitive(i[k], "Intersection")]
      \o [k \in 1..Len(s) |-> createCSGPrimitive(s[k], "Subtraction")]

ImmediateIntersectionLeafMutant(csgobj, shaderinfo, highlight_mode, background_mode) ==
  IF ~IsPolySet(csgobj) THEN << Ev("glPushMatrix", "", csgobj.index) >>
  ELSE LET colormode == ImmediateIntersectionColorMode(highlight_mode, background_mode)
           color == setColor(colormode, csgobj.color)
       IN  SelectUpload(shaderinfo, csgobj.index)
           \o << Ev("glPushMatrix", "", csgobj.index), Ev("setColor", colormode, csgobj.index) >>
           \o (IF IsOpaque(color)
               THEN << EvSurface(csgobj.index) >>
               ELSE << Ev("glEnable", "GL_CULL_FACE", 0), Ev("glCullFace", "GL_FRONT", 0),
                       EvSurface(csgobj.index),
                       Ev("glCullFace", "GL_BACK", 0),
                       EvSurface(csgobj.index),
                       Ev("glDisable", "GL_CULL_FACE", 0) >>)
           \o << Ev("glPopMatrix", "", csgobj.index) >>
ImmediateIntersectionLeaf(csgobj, shaderinfo, highlight_mode, background_mode) ==
  IF ~IsPolySet(csgobj) THEN <<>>
  ELSE LET colormode == ImmediateIntersectionColorMode(highlight_mode, background_mode)
           color == setColor(colormode, csgobj.color)
       IN  SelectUpload(shaderinfo, csgobj.index)
           \o << Ev("glPushMatrix", "", csgobj.index), Ev("setColor", colormode, csgobj.index) >>
           \o (IF IsOpaque(color)
               THEN << EvSurface(csgobj.index) >>
               ELSE << Ev("glEnable", "GL_CULL_FACE", 0), Ev("glCullFace", "GL_FRONT", 0),
                       EvSurface(csgobj.index),
                       Ev("glCullFace", "GL_BACK", 0),
                       EvSurface(csgobj.index),
                       Ev("glDisable", "GL_CULL_FACE", 0) >>)
           \o << Ev("glPopMatrix", "", csgobj.index) >>

ImmediateSubtractionLeafMutant(csgobj, shaderinfo, highlight_mode, background_mode) ==
  IF ~IsPolySet(csgobj) THEN <<>>
  ELSE LET colormode == ImmediateSubtractionColorMode(highlight_mode, background_mode)
       IN  << Ev("setColor", colormode, csgobj.index),
              Ev("glPushMatrix", "", csgobj.index) >>
           \o (IF IsOpaque(setColor(colormode, csgobj.color))
               THEN << EvSurface(csgobj.index) >>
               ELSE << Ev("glEnable", "GL_CULL_FACE", 0), Ev("glCullFace", "GL_FRONT", 0),
                       EvSurface(csgobj.index),
                       Ev("glDisable", "GL_CULL_FACE", 0) >>)
           \o << Ev("glPopMatrix", "", csgobj.index) >>
ImmediateSubtractionLeaf(csgobj, shaderinfo, highlight_mode, background_mode) ==
  IF ~IsPolySet(csgobj) THEN <<>>
  ELSE LET colormode == ImmediateSubtractionColorMode(highlight_mode, background_mode)
       IN  << Ev("setColor", colormode, csgobj.index),
              Ev("glPushMatrix", "", csgobj.index),
              Ev("glEnable", "GL_CULL_FACE", 0), Ev("glCullFace", "GL_FRONT", 0),
              EvSurface(csgobj.index),
              Ev("glDisable", "GL_CULL_FACE", 0),
              Ev("glPopMatrix", "", csgobj.index) >>

ImmediateProductMutant(product, shaderinfo, highlight_mode, background_mode) ==
  LET primitives == ImmediatePrimitives(product)
      I(csgobj) == ImmediateIntersectionLeaf(csgobj, shaderinfo, highlight_mode, background_mode)
      S(csgobj) == ImmediateSubtractionLeaf(csgobj, shaderinfo, highlight_mode, background_mode)
  IN  [k \in 1..Len(primitives) |-> Ev("new", primitives[k].operation, primitives[k].leaf)]
      \o (IF NeedsCompositing(primitives)
          THEN << EvRender(primitives), Ev("glDepthFunc", "GL_EQUAL", 0) >>
              \o [k \in 1..Len(primitives) |->
                    Ev("delete", primitives[k].operation, primitives[k].leaf)]
          ELSE <<>>)
      \o Flatten(MapSeq(I, product.intersections))
      \o Flatten(MapSeq(S, product.subtractions))
      \o << Ev("glDepthFunc", "GL_LEQUAL", 0) >>
ImmediateProduct(product, shaderinfo, highlight_mode, background_mode) ==
  LET primitives == ImmediatePrimitives(product)
      I(csgobj) == ImmediateIntersectionLeaf(csgobj, shaderinfo, highlight_mode, background_mode)
      S(csgobj) == ImmediateSubtractionLeaf(csgobj, shaderinfo, highlight_mode, background_mode)
  IN  [k \in 1..Len(primitives) |-> Ev("new", primitives[k].operation, primitives[k].leaf)]
      \o (IF NeedsCompositing(primitives)
          THEN << EvRender(primitives), Ev("glDepthFunc", "GL_EQUAL", 0) >>
          ELSE <<>>)
      \o Flatten(MapSeq(I, product.intersections))
      \o Flatten(MapSeq(S, product.subtractions))
      \o [k \in 1..Len(primitives) |-> Ev("delete", primitives[k].operation, primitives[k].leaf)]
      \o << Ev("glDepthFunc", "GL_LEQUAL", 0) >>

renderCSGProductsImmediate(products, shaderinfo, highlight_mode, background_mode) ==
  LET P(product) == ImmediateProduct(product, shaderinfo, highlight_mode, background_mode)
  IN  Flatten(MapSeq(P, products.products))

DrawImmediateMutant(shaderinfo) ==
  (IF root_products.present
   THEN renderCSGProductsImmediate(root_products, shaderinfo, FALSE, FALSE) ELSE <<>>)
  \o (IF highlights_products.present
      THEN renderCSGProductsImmediate(highlights_products, shaderinfo, TRUE, FALSE) ELSE <<>>)
  \o (IF background_products.present
      THEN renderCSGProductsImmediate(background_products, shaderinfo, FALSE, TRUE) ELSE <<>>)
DrawImmediate(shaderinfo) ==
  (IF root_products.present
   THEN renderCSGProductsImmediate(root_products, shaderinfo, FALSE, FALSE) ELSE <<>>)
  \o (IF background_products.present
      THEN renderCSGProductsImmediate(background_products, shaderinfo, FALSE, TRUE) ELSE <<>>)
  \o (IF highlights_products.present
      THEN renderCSGProductsImmediate(highlights_products, shaderinfo, TRUE, FALSE) ELSE <<>>)

(***************************************************************************)
(* The buffer-build path: createCSGProducts, run once by prepare().        *)
(***************************************************************************)
\* a VertexState that only carries state-change callbacks
PlainState(glBegin, glEnd) ==
  [type |-> "VertexState", glBegin |-> glBegin, glEnd |-> glEnd, draws |-> FALSE,
   range |-> 0, csgObjectIndex |-> 0, color |-> 0, vbo |-> 0]

\* the three culling states createCSGProducts builds
CullFrontState ==
  PlainState(<< Ev("glEnable", "GL_CULL_FACE", 0), Ev("glCullFace", "GL_FRONT", 0) >>, <<>>)
CullBackState == PlainState(<< Ev("glCullFace", "GL_BACK", 0) >>, <<>>)
CullDisableState == PlainState(<<>>, << Ev("glDisable", "GL_CULL_FACE", 0) >>)

\* what vertex_states->back() casts to when there is no surface state to find
NullState == [PlainState(<<>>, <<>>) EXCEPT !.type = "nullptr"]

\* create_surface(*ps, vertex_array, csgmode, matrix, last_color): appends the
\* OpenCSGVertexState of the leaf's draw range
create_surface(states, csgobj, color, vbo) ==
  IF csgobj.surface_ok
  THEN Append(states,
              [type |-> "OpenCSGVertexState", glBegin |-> <<>>, glEnd |-> <<>>, draws |-> TRUE,
               range |-> csgobj.index, csgObjectIndex |-> 0, color |-> color, vbo |-> vbo])
  ELSE states

\* std::dynamic_pointer_cast<OpenCSGVertexState>(vertex_states->back())
BackSurface(states) ==
  IF states # <<>> /\ states[Len(states)].type = "OpenCSGVertexState"
  THEN states[Len(states)] ELSE NullState

SetBack(states, vs) == [states EXCEPT ![Len(states)] = vs]

\* the primitive createVBOPrimitive builds from a surface state
createVBOPrimitive(vertex_state, operation) ==
  [operation |-> operation, leaf |-> vertex_state.range, geom |-> TRUE]

\* getShaderColor(colormode, c, color): whether it set `color`, and to what
getShaderColor(colormode, c) == [ok |-> c.resolves, alpha |-> c.alpha]

BuildIntersectionColorMode(highlight_mode, background_mode) ==
  IF highlight_mode THEN "HIGHLIGHT" ELSE IF background_mode THEN "BACKGROUND" ELSE "MATERIAL"

BuildSubtractionColorModeMutant(highlight_mode, background_mode) ==
  IF highlight_mode THEN "HIGHLIGHT" ELSE IF background_mode THEN "BACKGROUND" ELSE "MATERIAL"
BuildSubtractionColorMode(highlight_mode, background_mode) ==
  IF highlight_mode THEN "HIGHLIGHT" ELSE IF background_mode THEN "BACKGROUND" ELSE "CUTOUT"

\* one pass of the loop over product.intersections; acc holds the product's
\* vertex_states, primitives and last_color.  `uninit` is what a Color4f that
\* was never assigned reads as.
BuildIntersection(acc, csgobj, highlight_mode, background_mode, vbo, uninit) ==
  IF acc.aborted \/ ~HasGeom(csgobj) \/ ~IsPolySet(csgobj) THEN acc
  ELSE
    LET colormode == BuildIntersectionColorMode(highlight_mode, background_mode)
        got == getShaderColor(colormode, csgobj.color)
        color == IF got.ok THEN got.alpha ELSE uninit
        last_color == IF got.ok THEN color ELSE acc.last_color
        acc1 == [acc EXCEPT !.last_color = last_color,
                            !.log = Append(@, Ev("getShaderColor", colormode, csgobj.index))]
    IN
    IF IsOpaque(color)
    THEN LET st1 == create_surface(acc1.states, csgobj, last_color, vbo)
             surface == BackSurface(st1)
             tagged == [surface EXCEPT !.csgObjectIndex = csgobj.index]
         IN  IF surface.type # "nullptr"
             THEN [acc1 EXCEPT !.states = SetBack(st1, tagged),
                               !.primitives = Append(@, createVBOPrimitive(tagged, "Intersection"))]
             ELSE [acc1 EXCEPT !.states = st1]
    ELSE LET st0 == Append(acc1.states, CullFrontState)
             st1 == create_surface(st0, csgobj, last_color, vbo)
             surface == BackSurface(st1)
             tagged == [surface EXCEPT !.csgObjectIndex = csgobj.index]
         IN  IF surface.type # "nullptr"
             THEN [acc1 EXCEPT !.states = SetBack(st1, tagged)
                                            \o << CullBackState, tagged, CullDisableState >>,
                               !.primitives = Append(@, createVBOPrimitive(tagged, "Intersection"))]
             ELSE \* assert(false && "Intersection surface state was nullptr")
                  [acc1 EXCEPT !.states = st1, !.aborted = TRUE]

\* one pass of the loop over product.subtractions
BuildSubtraction(acc, csgobj, highlight_mode, background_mode, vbo, uninit) ==
  IF acc.aborted \/ ~HasGeom(csgobj) \/ ~IsPolySet(csgobj) THEN acc
  ELSE
    LET colormode == BuildSubtractionColorMode(highlight_mode, background_mode)
        got == getShaderColor(colormode, csgobj.color)
        color == IF got.ok THEN got.alpha ELSE uninit
        last_color == IF got.ok THEN color ELSE acc.last_color
        acc1 == [acc EXCEPT !.last_color = last_color,
                            !.log = Append(@, Ev("getShaderColor", colormode, csgobj.index))]
        st0 == Append(acc1.states, CullFrontState)
        st1 == create_surface(st0, csgobj, last_color, vbo)
        surface == BackSurface(st1)
        tagged == [surface EXCEPT !.csgObjectIndex = csgobj.index]
    IN  IF surface.type # "nullptr"
        THEN [acc1 EXCEPT !.states = Append(SetBack(st1, tagged), CullDisableState),
                          !.primitives = Append(@, createVBOPrimitive(tagged, "Subtraction"))]
        ELSE \* assert(false && "Subtraction surface state was nullptr")
             [acc1 EXCEPT !.states = st1, !.aborted = TRUE]

RECURSIVE BuildIntersections(_, _, _, _, _, _)
BuildIntersections(acc, leaves, highlight_mode, background_mode, vbo, uninit) ==
  IF leaves = <<>> THEN acc
  ELSE Bind(BuildIntersection(acc, Head(leaves), highlight_mode, background_mode, vbo, uninit),
            LAMBDA a : BuildIntersections(a, Tail(leaves), highlight_mode, background_mode,
                                          vbo, uninit))

RECURSIVE BuildSubtractions(_, _, _, _, _, _)
BuildSubtractions(acc, leaves, highlight_mode, background_mode, vbo, uninit) ==
  IF leaves = <<>> THEN acc
  ELSE Bind(BuildSubtraction(acc, Head(leaves), highlight_mode, background_mode, vbo, uninit),
            LAMBDA a : BuildSubtractions(a, Tail(leaves), highlight_mode, background_mode,
                                         vbo, uninit))

\* the body of the loop over products.products; r is the renderer being built
BuildProduct(r, product, highlight_mode, background_mode, vbo_index, uninit) ==
  LET vbo == r.all_vbos_[vbo_index + 1]
      acc0 == [states |-> <<>>, primitives |-> <<>>, last_color |-> uninit,
               aborted |-> FALSE, log |-> r.log]
      Subtractions(acc1) ==
        BuildSubtractions(acc1, product.subtractions, highlight_mode, background_mode, vbo, uninit)
      Finish(acc2) ==
        IF acc2.aborted
        THEN [r EXCEPT !.aborted = TRUE, !.log = acc2.log]
        ELSE [r EXCEPT !.log = acc2.log,
                       !.vbo_vertex_products =
                          Append(@, [primitives |-> acc2.primitives, states |-> acc2.states])]
  IN  Bind(BuildIntersections(acc0, product.intersections, highlight_mode, background_mode,
                              vbo, uninit),
           LAMBDA acc1 : Bind(Subtractions(acc1), Finish))

\* buffers taken from all_vbos_ per product: the vertex buffer and, with
\* indexing, the element buffer
VbosPerProduct == IF indexing THEN 2 ELSE 1

RECURSIVE BuildProducts(_, _, _, _, _, _)
BuildProducts(r, ps, highlight_mode, background_mode, vbo_index, uninit) ==
  IF ps = <<>> \/ r.aborted THEN r
  ELSE Bind(BuildProduct(r, Head(ps), highlight_mode, background_mode, vbo_index, uninit),
            LAMBDA r1 : BuildProducts(r1, Tail(ps), highlight_mode, background_mode,
                                      vbo_index + VbosPerProduct, uninit))

\* all_vbos_.resize(vbo_count); glGenBuffers(vbo_count, all_vbos_.data())
GenBuffers(r, vbo_count) ==
  LET resized == [i \in 1..vbo_count |-> IF i <= Len(r.all_vbos_) THEN r.all_vbos_[i] ELSE 0]
  IN  [r EXCEPT !.all_vbos_ = [i \in 1..Len(resized) |->
                                   IF i <= vbo_count THEN r.gl_buffers + i ELSE resized[i]],
                !.gl_buffers = @ + vbo_count,
                !.log = Append(@, Ev("glGenBuffers", "", vbo_count))]

createCSGProducts(r, products, highlight_mode, background_mode, uninit) ==
  LET vbo_count == Len(products.products) * VbosPerProduct
  IN  Bind(IF vbo_count # 0 THEN GenBuffers(r, vbo_count) ELSE r,
           LAMBDA r1 : BuildProducts(r1, products.products, highlight_mode, background_mode,
                                     0, uninit))

\* the three calls prepare() makes once its guard has passed
PrepareBuild(uninit) ==
  LET r0 == [vbo_vertex_products |-> vbo_vertex_products, all_vbos_ |-> all_vbos_,
             gl_buffers |-> gl_buffers, aborted |-> FALSE, log |-> <<>>]
      Root(r) == IF root_products.present
                 THEN createCSGProducts(r, root_products, FALSE, FALSE, uninit) ELSE r
      Background(r) == IF background_products.present /\ ~r.aborted
                       THEN createCSGProducts(r, background_products, FALSE, TRUE, uninit) ELSE r
      Highlights(r) == IF highlights_products.present /\ ~r.aborted
                       THEN createCSGProducts(r, highlights_products, TRUE, FALSE, uninit) ELSE r
  IN  Bind(Root(r0), LAMBDA r1 : Bind(Background(r1), Highlights))

\* Feature::ExperimentalVxORenderers.is_enabled() && !vbo_vertex_products.size()
PrepareGuardMutant == vxo
PrepareGuard == vxo /\ Len(vbo_vertex_products) = 0

(***************************************************************************)
(* Replay: renderCSGProducts with ExperimentalVxORenderers.                *)
(***************************************************************************)
\* VertexState::draw(): the glBegin callbacks, the draw call, the glEnd callbacks
VertexStateDraw(vs) ==
  vs.glBegin \o (IF vs.draws THEN << EvSurface(vs.range) >> ELSE <<>>) \o vs.glEnd

ReplayState(vs, shaderinfo) ==
  (IF vs.type = "OpenCSGVertexState" THEN SelectUpload(shaderinfo, vs.csgObjectIndex) ELSE <<>>)
  \o VertexStateDraw(vs)

ReplayProductMutant(product, shaderinfo) ==
  LET R(vs) == ReplayState(vs, shaderinfo)
  IN  (IF NeedsCompositing(product.primitives)
       THEN << EvRender(product.primitives), Ev("glDepthFunc", "GL_EQUAL", 0) >>
       ELSE <<>>)
      \o << Ev("glDepthFunc", "GL_LEQUAL", 0) >>
      \o Flatten(MapSeq(R, product.states))
ReplayProduct(product, shaderinfo) ==
  LET R(vs) == ReplayState(vs, shaderinfo)
  IN  (IF NeedsCompositing(product.primitives)
       THEN << EvRender(product.primitives), Ev("glDepthFunc", "GL_EQUAL", 0) >>
       ELSE <<>>)
      \o Flatten(MapSeq(R, product.states))
      \o << Ev("glDepthFunc", "GL_LEQUAL", 0) >>

renderCSGProductsVBOMutant(shaderinfo) ==
  LET P(product) == ReplayProduct(product, shaderinfo)
  IN  IF vbo_vertex_products = <<>> THEN DrawImmediate(shaderinfo)
      ELSE Flatten(MapSeq(P, vbo_vertex_products))
renderCSGProductsVBO(shaderinfo) ==
  LET P(product) == ReplayProduct(product, shaderinfo)
  IN  Flatten(MapSeq(P, vbo_vertex_products))

(***************************************************************************)
(* getBoundingBox.                                                         *)
(***************************************************************************)
Min2(a, b) == IF a <= b THEN a ELSE b
Max2(a, b) == IF a >= b THEN a ELSE b

\* Eigen::AlignedBox::extend(const AlignedBox&)
Extend(a, b) == [min |-> Min2(a.min, b.min), max |-> Max2(a.max, b.max)]

getBoundingBoxMutant ==
  LET b0 == EmptyBox
      b1 == IF root_products.present THEN root_products.bbox ELSE b0
      b2 == IF highlights_products.present THEN Extend(b1, highlights_products.bbox) ELSE b1
  IN  IF background_products.present THEN background_products.bbox ELSE b2
getBoundingBox ==
  LET b0 == EmptyBox
      b1 == IF root_products.present THEN root_products.bbox ELSE b0
      b2 == IF highlights_products.present THEN Extend(b1, highlights_products.bbox) ELSE b1
  IN  IF background_products.present THEN Extend(b2, background_products.bbox) ELSE b2

(***************************************************************************)
(* The renderer as a state machine.                                        *)
(***************************************************************************)
\* shaderinfo as draw() sees it: a selection shader, or none / another one
ShaderInfos == {"NONE", "SELECT_RENDERING"}

\* the renderer just constructed over a tree of at most k products and n
\* leaves, every present group holding at least lo products
InitWith(L, lo, k, n, boxes) ==
  /\ \E r \in Groups(L, lo, k, n, boxes) :
       \E b \in Groups(L, lo, k - NumProducts(r), n - NumLeaves(r), boxes) :
         \E h \in Groups(L, lo, k - NumProducts(r) - NumProducts(b),
                         n - NumLeaves(r) - NumLeaves(b), boxes) :
           /\ root_products = NumberGroup(r, 0)
           /\ background_products = NumberGroup(b, NumLeaves(r))
           /\ highlights_products = NumberGroup(h, NumLeaves(r) + NumLeaves(b))
  /\ vxo \in BOOLEAN
  /\ indexing \in (IF vxo THEN BOOLEAN ELSE {FALSE})
  /\ vbo_vertex_products = <<>>
  /\ all_vbos_ = <<>>
  /\ gl_buffers = 0
  /\ aborted = FALSE
  /\ lastOp = "new"
  /\ lastArgs = <<>>
  /\ trace = <<>>
  /\ bbox = EmptyBox

Init == InitWith(NominalLeaves, 1, MaxProducts, MaxLeaves, {EmptyBox})

\* OpenCSGRenderer::prepare
Prepare ==
  /\ ~aborted
  /\ IF PrepareGuard
     THEN \E uninit \in AlphaValues : \E r \in { PrepareBuild(uninit) } :
            /\ vbo_vertex_products' = r.vbo_vertex_products
            /\ all_vbos_' = r.all_vbos_
            /\ gl_buffers' = r.gl_buffers
            /\ aborted' = r.aborted
            /\ trace' = r.log
     ELSE /\ UNCHANGED <<vbo_vertex_products, all_vbos_, gl_buffers, aborted>>
          /\ trace' = <<>>
  /\ lastOp' = "prepare"
  /\ lastArgs' = <<>>
  /\ UNCHANGED <<root_products, highlights_products, background_products, vxo, indexing, bbox>>

\* OpenCSGRenderer::draw
Draw ==
  /\ ~aborted
  /\ \E shaderinfo \in ShaderInfos :
       /\ trace' = IF ~vxo THEN DrawImmediate(shaderinfo) ELSE renderCSGProductsVBO(shaderinfo)
       /\ lastArgs' = << shaderinfo >>
  /\ lastOp' = "draw"
  /\ UNCHANGED <<root_products, highlights_products, background_products, vxo, indexing,
                 vbo_vertex_products, all_vbos_, gl_buffers, aborted, bbox>>

\* OpenCSGRenderer::getBoundingBox
GetBoundingBox ==
  /\ ~aborted
  /\ bbox' = getBoundingBox
  /\ lastOp' = "getBoundingBox"
  /\ lastArgs' = <<>>
  /\ trace' = <<>>
  /\ UNCHANGED <<root_products, highlights_products, background_products, vxo, indexing,
                 vbo_vertex_products, all_vbos_, gl_buffers, aborted>>

Next == Prepare \/ Draw

Spec == Init /\ [][Next]_vars

(***************************************************************************)
(* The renderer with bounding-box queries: the groups carry boxes of       *)
(* their own, over small trees.                                            *)
(***************************************************************************)
Boxes == { EmptyBox, [min |-> 0, max |-> 2], [min |-> 1, max |-> 4], [min |-> 0 - 3, max |-> 1] }

OpaqueLeaves == { l \in NominalLeaves : l.geom = "PolySet" /\ l.color.alpha = Opaque }

InitBBox == InitWith(OpaqueLeaves, 0, MaxProducts - 1, MaxLeaves - 1, Boxes)

NextBBox == Prepare \/ Draw \/ GetBoundingBox

SpecBBox == InitBBox /\ [][NextBBox]_vars

(***************************************************************************)
(* The buffer-build path with faults: the colour resolver may leave a      *)
(* leaf's colour alone, and create_surface may append no surface state.    *)
(***************************************************************************)
\* a leaf the resolver does not override has no resolved alpha of its own
FaultLeaves ==
  { [geom |-> "PolySet", color |-> [alpha |-> a, resolves |-> TRUE], surface_ok |-> ok, index |-> 0] :
      a \in AlphaValues, ok \in BOOLEAN }
  \cup
  { [geom |-> "PolySet", color |-> [alpha |-> Opaque, resolves |-> FALSE], surface_ok |-> ok,
     index |-> 0] : ok \in BOOLEAN }

InitFault == InitWith(FaultLeaves, 1, MaxProducts, MaxLeaves, {EmptyBox}) /\ vxo

SpecFault == InitFault /\ [][Next]_vars

(***************************************************************************)
(* The renderer over one product of two leaves whose indices are drawn     *)
(* from values on both sides of the byte boundaries and of 2^24.           *)
(***************************************************************************)
TwoTo24 == 256 * 256 * 256

SelectIndices == { 1, 2, 255, 256, 257, 65535, 65536, TwoTo24 - 1, TwoTo24, TwoTo24 + 1,
                   TwoTo24 + 256 }

SelectLeaf(index, alpha) ==
  [geom |-> "PolySet", color |-> [alpha |-> alpha, resolves |-> TRUE], surface_ok |-> TRUE,
   index |-> index]

InitSelect ==
  /\ \E i1 \in SelectIndices : \E i2 \in SelectIndices \ {i1} : \E a \in AlphaValues :
       root_products =
         [present |-> TRUE, bbox |-> EmptyBox,
          products |-> << [intersections |-> << SelectLeaf(i1, a), SelectLeaf(i2, Opaque) >>,
                           subtractions |-> <<>>] >>]
  /\ highlights_products = NoGroup
  /\ background_products = NoGroup
  /\ vxo \in BOOLEAN
  /\ indexing \in (IF vxo THEN BOOLEAN ELSE {FALSE})
  /\ vbo_vertex_products = <<>>
  /\ all_vbos_ = <<>>
  /\ gl_buffers = 0
  /\ aborted = FALSE
  /\ lastOp = "new"
  /\ lastArgs = <<>>
  /\ trace = <<>>
  /\ bbox = EmptyBox

SpecSelect == InitSelect /\ [][Next]_vars

(***************************************************************************)
(* Reading the tree and the trace.                                         *)
(***************************************************************************)
\* the groups in the order prepare() and draw() visit them, with their modes
GroupsInOrder ==
  << [group |-> root_products, highlight |-> FALSE, background |-> FALSE],
     [group |-> background_products, highlight |-> FALSE, background |-> TRUE],
     [group |-> highlights_products, highlight |-> TRUE, background |-> FALSE] >>

\* the products of the tree in that order, each with the modes of its group
TreeProducts ==
  LET G(g) == [k \in 1..Len(g.group.products) |->
                 [product |-> g.group.products[k], highlight |-> g.highlight,
                  background |-> g.background]]
  IN  Flatten(MapSeq(G, GroupsInOrder))

\* the leaves of the tree: the leaf, its list, the modes of its group, its product
TreeLeaves ==
  LET tp == TreeProducts
  IN  UNION { { [leaf |-> tp[j].product.intersections[k], type |-> "Intersection",
                 highlight |-> tp[j].highlight, background |-> tp[j].background,
                 product |-> j] : k \in 1..Len(tp[j].product.intersections) }
              \cup
              { [leaf |-> tp[j].product.subtractions[k], type |-> "Subtraction",
                 highlight |-> tp[j].highlight, background |-> tp[j].background,
                 product |-> j] : k \in 1..Len(tp[j].product.subtractions) }
            : j \in 1..Len(tp) }

\* the last call was a draw() that had something to draw from: the tree
\* itself, or the lists prepare() built from it
Rendered ==
  /\ lastOp = "draw"
  /\ vxo => Len(vbo_vertex_products) = Len(TreeProducts)

\* every product's commands end with the one glDepthFunc(GL_LEQUAL)
LeqPositions ==
  SelectSeq([i \in 1..Len(trace) |-> i],
            LAMBDA i : trace[i].op = "glDepthFunc" /\ trace[i].arg = "GL_LEQUAL")

\* the commands of the j-th product drawn
Segment(j) ==
  LET lp == LeqPositions
  IN  SubSeq(trace, IF j = 1 THEN 1 ELSE lp[j - 1] + 1, lp[j])

IsRender(e) == e.op = "OpenCSG::render"
IsSurface(e) == e.op = "surface"
IsCulling(e) == e.op \in {"glEnable", "glCullFace", "glDisable"}

Renders(es) == SelectSeq(es, IsRender)

\* the operation and leaf of each primitive of a list
Tags(prims) == [k \in 1..Len(prims) |-> << prims[k].operation, prims[k].leaf >>]

\* how often leaf `index` is drawn in a sequence of commands
SurfaceCount(es, index) ==
  Cardinality({ i \in 1..Len(es) : IsSurface(es[i]) /\ es[i].leaf = index })

\* the culling commands and surface draws of the frame, in order
CullTrace == SelectSeq(trace, LAMBDA e : IsCulling(e) \/ IsSurface(e))

\* whether `pattern` occurs in `es` as a run of adjacent entries
Occurs(pattern, es) ==
  \E i \in 0..(Len(es) - Len(pattern)) : SubSeq(es, i + 1, i + Len(pattern)) = pattern

\* whether face culling is enabled after the first i entries of es
CullingEnabledAfter(es, i) ==
  Cardinality({ k \in 1..i : es[k].op = "glEnable" })
    > Cardinality({ k \in 1..i : es[k].op = "glDisable" })

\* the primitives a product yields on the path in use: those created for the
\* frame (immediate path), or those retained by prepare() (buffer-build path)
YieldedCount(j) ==
  IF vxo THEN Len(vbo_vertex_products[j].primitives)
  ELSE LET seg == Segment(j)
       IN  Cardinality({ i \in 1..Len(seg) : seg[i].op = "new" })

\* one segment of commands per product of the tree
OneSegmentPerProduct == Len(LeqPositions) = Len(TreeProducts)

\* the operation and leaf of every leaf of product p whose geometry is present
GeometryTags(p) ==
  LET i == SelectSeq(p.intersections, LAMBDA l : l.geom # "null")
      s == SelectSeq(p.subtractions, LAMBDA l : l.geom # "null")
  IN  [k \in 1..Len(i) |-> << "Intersection", i[k].index >>]
      \o [k \in 1..Len(s) |-> << "Subtraction", s[k].index >>]

PolySetLeaves(type) ==
  { t \in TreeLeaves : t.type = type /\ t.leaf.geom = "PolySet" }

(***************************************************************************)
(* C1.  On both paths, for every product with at least two leaves, the     *)
(* compositor is handed exactly one primitive per leaf that has geometry:  *)
(* the intersection leaves in their order, then the subtraction leaves in  *)
(* theirs, each tagged with its operation.                                 *)
(***************************************************************************)
C1_OnePrimitivePerLeafWithGeometry ==
  Rendered =>
    /\ OneSegmentPerProduct
    /\ LET tp == TreeProducts IN \A j \in 1..Len(tp) :
         LET p == tp[j].product
             r == Renders(Segment(j))
         IN  ProductSize(p) >= 2 =>
               /\ \A k \in 1..Len(r) : Tags(r[k].prims) = GeometryTags(p)
               /\ Len(GeometryTags(p)) >= 2 => Len(r) = 1

(***************************************************************************)
(* C2.  On both paths draw() invokes the compositor for a product exactly  *)
(* when the product yields more than one primitive, handing it those       *)
(* primitives, and switches the depth function to GL_EQUAL exactly then:   *)
(* for a product of 0 or 1 primitive there is no compositor call and no    *)
(* GL_EQUAL among the product's commands.                                  *)
(***************************************************************************)
C2_CompositorIffSeveralPrimitives ==
  Rendered =>
    /\ OneSegmentPerProduct
    /\ \A j \in 1..Len(TreeProducts) :
         LET seg == Segment(j)
             r == Renders(seg)
             equals == { i \in 1..Len(seg) : seg[i].op = "glDepthFunc" /\ seg[i].arg = "GL_EQUAL" }
             n == YieldedCount(j)
         IN  IF n > 1
             THEN /\ Len(r) = 1
                  /\ Len(r[1].prims) = n
                  /\ Cardinality(equals) = 1
             ELSE /\ r = <<>>
                  /\ equals = {}

\* a frame with a composited product and a product that is not composited
C2_Witness ==
  /\ Rendered
  /\ OneSegmentPerProduct
  /\ \E j \in 1..Len(TreeProducts) : YieldedCount(j) > 1 /\ Renders(Segment(j)) # <<>>
  /\ \E j \in 1..Len(TreeProducts) : YieldedCount(j) <= 1 /\ Renders(Segment(j)) = <<>>

(***************************************************************************)
(* C3.  A product of exactly one intersection leaf with polygon geometry   *)
(* and no subtraction leaf: draw() does not invoke the compositor for it.  *)
(* As claimed, the leaf is drawn exactly once whatever its colour; as      *)
(* amended, once when its resolved alpha is 1.0 and twice when it is less. *)
(***************************************************************************)
SingleLeafProducts ==
  LET tp == TreeProducts
  IN  { j \in 1..Len(tp) :
          /\ Len(tp[j].product.intersections) = 1
          /\ Len(tp[j].product.subtractions) = 0
          /\ tp[j].product.intersections[1].geom = "PolySet" }

C3_SingleLeafDrawnOnce ==
  Rendered =>
    /\ OneSegmentPerProduct
    /\ \A j \in SingleLeafProducts :
         /\ Renders(Segment(j)) = <<>>
         /\ SurfaceCount(Segment(j), TreeProducts[j].product.intersections[1].index) = 1

C3_SingleLeafDrawnOnceOrTwice ==
  Rendered =>
    /\ OneSegmentPerProduct
    /\ \A j \in SingleLeafProducts :
         LET leaf == TreeProducts[j].product.intersections[1]
             seg == Segment(j)
         IN  /\ Renders(seg) = <<>>
             /\ SurfaceCount(seg, leaf.index)
                  = IF leaf.color.alpha = Opaque THEN 1 ELSE 2
             /\ SurfaceCount(trace, leaf.index) = SurfaceCount(seg, leaf.index)

\* a frame with a single-leaf product whose leaf is transparent, and one
\* whose leaf is opaque
C3_Witness ==
  /\ Rendered
  /\ \E j \in SingleLeafProducts : TreeProducts[j].product.intersections[1].color.alpha < Opaque
  /\ \E j \in SingleLeafProducts : TreeProducts[j].product.intersections[1].color.alpha = Opaque

(***************************************************************************)
(* C4.  On both paths an intersection leaf with polygon geometry whose     *)
(* resolved colour has alpha 1.0 is drawn exactly once, with culling       *)
(* disabled and no culling command on either side of the draw that         *)
(* belongs to it; one with alpha below 1.0 gives exactly the run           *)
(* glEnable(GL_CULL_FACE), glCullFace(GL_FRONT), draw, glCullFace(GL_BACK),*)
(* draw, glDisable(GL_CULL_FACE), and culling is disabled after it.        *)
(***************************************************************************)
TransparentRun(index) ==
  << Ev("glEnable", "GL_CULL_FACE", 0), Ev("glCullFace", "GL_FRONT", 0), EvSurface(index),
     Ev("glCullFace", "GL_BACK", 0), EvSurface(index), Ev("glDisable", "GL_CULL_FACE", 0) >>

C4_IntersectionLeafCulling ==
  Rendered =>
    LET ct == CullTrace
    IN  \A t \in PolySetLeaves("Intersection") :
          IF t.leaf.color.alpha = Opaque
          THEN /\ SurfaceCount(ct, t.leaf.index) = 1
               /\ \A i \in 1..Len(ct) :
                    ct[i] = EvSurface(t.leaf.index) =>
                      /\ ~CullingEnabledAfter(ct, i)
                      /\ i > 1 => ct[i - 1].op \notin {"glEnable", "glCullFace"}
                      /\ i < Len(ct) => ct[i + 1].op \notin {"glCullFace", "glDisable"}
          ELSE /\ SurfaceCount(ct, t.leaf.index) = 2
               /\ \E i \in 0..(Len(ct) - 6) :
                    /\ SubSeq(ct, i + 1, i + 6) = TransparentRun(t.leaf.index)
                    /\ ~CullingEnabledAfter(ct, i + 6)

\* a frame that draws an opaque and a transparent intersection leaf
C4_Witness ==
  /\ Rendered
  /\ \E t \in PolySetLeaves("Intersection") :
       t.leaf.color.alpha = Opaque /\ SurfaceCount(trace, t.leaf.index) > 0
  /\ \E t \in PolySetLeaves("Intersection") :
       t.leaf.color.alpha < Opaque /\ SurfaceCount(trace, t.leaf.index) > 0

(***************************************************************************)
(* C5.  On both paths every subtraction leaf with polygon geometry,        *)
(* whatever its alpha, gives exactly the run glEnable(GL_CULL_FACE),       *)
(* glCullFace(GL_FRONT), one draw, glDisable(GL_CULL_FACE): it is drawn    *)
(* once, never with culling disabled and never with back faces culled.    *)
(***************************************************************************)
SubtractionRun(index) ==
  << Ev("glEnable", "GL_CULL_FACE", 0), Ev("glCullFace", "GL_FRONT", 0), EvSurface(index),
     Ev("glDisable", "GL_CULL_FACE", 0) >>

C5_SubtractionLeafCulling ==
  Rendered =>
    LET ct == CullTrace
    IN  \A t \in PolySetLeaves("Subtraction") :
          /\ SurfaceCount(ct, t.leaf.index) = 1
          /\ Occurs(SubtractionRun(t.leaf.index), ct)

\* a frame that draws an opaque and a transparent subtraction leaf
C5_Witness ==
  /\ Rendered
  /\ \E t \in PolySetLeaves("Subtraction") :
       t.leaf.color.alpha = Opaque /\ SurfaceCount(trace, t.leaf.index) > 0
  /\ \E t \in PolySetLeaves("Subtraction") :
       t.leaf.color.alpha < Opaque /\ SurfaceCount(trace, t.leaf.index) > 0

(***************************************************************************)
(* C6.  Once prepare() has built the lists of a tree with at least one     *)
(* product, a further prepare() allocates no buffer and leaves the         *)
(* retained lists and the tracked handles as they are.                     *)
(***************************************************************************)
C6_PrepareIdempotent ==
  [][ (lastOp' = "prepare" /\ Len(vbo_vertex_products) > 0)
        => /\ UNCHANGED << vbo_vertex_products, all_vbos_, gl_buffers >>
           /\ \A i \in 1..Len(trace') : trace'[i].op # "glGenBuffers" ]_vars

\* a prepare() that found the lists built and did nothing
C6_Witness ==
  /\ lastOp = "prepare"
  /\ Len(vbo_vertex_products) > 0
  /\ gl_buffers > 0
  /\ trace = <<>>

(***************************************************************************)
(* C7.  A leaf whose geometry is absent gives no primitive, no             *)
(* VertexState and no surface draw, on either path and wherever it stands  *)
(* in its list.                                                            *)
(***************************************************************************)
\* leaf `index` appears in no command and in no retained primitive or state
\* (a glGenBuffers command carries a count, not a leaf)
LeavesNoMark(index) ==
  /\ \A i \in 1..Len(trace) :
       /\ trace[i].op # "glGenBuffers" => trace[i].leaf # index
       /\ \A k \in 1..Len(trace[i].prims) : trace[i].prims[k].leaf # index
  /\ \A j \in 1..Len(vbo_vertex_products) :
       /\ \A k \in 1..Len(vbo_vertex_products[j].primitives) :
            vbo_vertex_products[j].primitives[k].leaf # index
       /\ \A k \in 1..Len(vbo_vertex_products[j].states) :
            /\ vbo_vertex_products[j].states[k].range # index
            /\ vbo_vertex_products[j].states[k].csgObjectIndex # index

C7_NoGeometryNoMark ==
  \A t \in TreeLeaves : t.leaf.geom = "null" => LeavesNoMark(t.leaf.index)

\* a frame over a product that holds a leaf without geometry before a leaf
\* that is drawn
C7_Witness ==
  /\ Rendered
  /\ \E t \in TreeLeaves, u \in TreeLeaves :
       /\ t.leaf.geom = "null"
       /\ u.product = t.product
       /\ u.leaf.index > t.leaf.index
       /\ SurfaceCount(trace, u.leaf.index) > 0

(***************************************************************************)
(* C8.  A leaf whose geometry is present but is no polygon surface is      *)
(* skipped on both paths: no primitive of it is in a list given to the     *)
(* compositor, and it is not drawn.                                        *)
(***************************************************************************)
C8_NonPolygonLeafSkipped ==
  \A t \in TreeLeaves :
    t.leaf.geom = "other" =>
      \A i \in 1..Len(trace) :
        /\ ~(IsSurface(trace[i]) /\ trace[i].leaf = t.leaf.index)
        /\ IsRender(trace[i]) =>
             \A k \in 1..Len(trace[i].prims) : trace[i].prims[k].leaf # t.leaf.index

(***************************************************************************)
(* C9.  The colour mode used for a leaf is HIGHLIGHT in a highlight group, *)
(* else BACKGROUND in a background group, else MATERIAL for an             *)
(* intersection leaf and CUTOUT for a subtraction leaf, on the immediate   *)
(* path and in the build alike; every leaf with polygon geometry gets its  *)
(* colour resolved, and never in mode NONE.                                *)
(***************************************************************************)
ExpectedColorMode(t) ==
  IF t.highlight THEN "HIGHLIGHT"
  ELSE IF t.background THEN "BACKGROUND"
  ELSE IF t.type = "Intersection" THEN "MATERIAL" ELSE "CUTOUT"

IsColorCall(e) == e.op \in {"setColor", "getShaderColor"}

\* the last call resolved colours: an immediate draw(), or the prepare() that built
ResolvedColors ==
  \/ lastOp = "draw" /\ ~vxo
  \/ lastOp = "prepare" /\ \E i \in 1..Len(trace) : trace[i].op = "glGenBuffers"

C9_ColorMode ==
  /\ \A i \in 1..Len(trace) :
       IsColorCall(trace[i]) =>
         \E t \in TreeLeaves :
           t.leaf.index = trace[i].leaf /\ trace[i].arg = ExpectedColorMode(t)
  /\ ResolvedColors =>
       \A t \in TreeLeaves :
         t.leaf.geom = "PolySet" =>
           Cardinality({ i \in 1..Len(trace) :
                           IsColorCall(trace[i]) /\ trace[i].leaf = t.leaf.index }) = 1

\* the build resolved the colour of a subtraction leaf of the root group and
\* of a leaf of the highlight group
C9_Witness ==
  /\ lastOp = "prepare"
  /\ \E i \in 1..Len(trace) : trace[i].op = "getShaderColor" /\ trace[i].arg = "CUTOUT"
  /\ \E i \in 1..Len(trace) : trace[i].op = "getShaderColor" /\ trace[i].arg = "HIGHLIGHT"

(***************************************************************************)
(* C10.  getBoundingBox() returns the union of the boxes of the groups     *)
(* that are present: the background group's own box when it is the only    *)
(* group, the empty box when there is none; and it changes nothing of the  *)
(* renderer.                                                               *)
(***************************************************************************)
PresentBoxes ==
  { g.bbox : g \in { h \in {root_products, highlights_products, background_products} : h.present } }

\* the smallest box holding every box of B
UnionBox(B) ==
  [min |-> CHOOSE m \in { b.min : b \in B } \cup {Big} :
             \A x \in { b.min : b \in B } \cup {Big} : m <= x,
   max |-> CHOOSE m \in { b.max : b \in B } \cup {0 - Big} :
             \A x \in { b.max : b \in B } \cup {0 - Big} : m >= x]

C10_BoundingBoxUnion ==
  [][ lastOp' = "getBoundingBox" =>
        /\ bbox' = UnionBox(PresentBoxes)
        /\ (background_products.present /\ ~root_products.present /\ ~highlights_products.present)
             => bbox' = background_products.bbox
        /\ PresentBoxes = {} => bbox' = EmptyBox
        /\ UNCHANGED << root_products, highlights_products, background_products, vxo, indexing,
                        vbo_vertex_products, all_vbos_, gl_buffers, aborted >> ]_vars

\* a query on a renderer that holds two boxes neither of which holds the
\* other, after the lists were built
C10_Witness ==
  /\ lastOp = "getBoundingBox"
  /\ Len(vbo_vertex_products) > 0
  /\ root_products.present /\ background_products.present
  /\ bbox # root_products.bbox
  /\ bbox # background_products.bbox
  /\ bbox # EmptyBox

(***************************************************************************)
(* C11.  For the same tree, the observable commands of one frame           *)
(* (compositor calls with the operation and leaf of each primitive, depth  *)
(* function changes, culling toggles, surface draws by leaf) issued by     *)
(* prepare() and draw() on the buffer-build path are those the immediate   *)
(* path issues.                                                            *)
(***************************************************************************)
IsDepthFunc(e) == e.op = "glDepthFunc"

\* the observable commands of a sequence of commands
Observable(es) ==
  LET kept == SelectSeq(es, LAMBDA e : IsRender(e) \/ IsDepthFunc(e) \/ IsCulling(e) \/ IsSurface(e))
  IN  [i \in 1..Len(kept) |->
         [op |-> kept[i].op, arg |-> kept[i].arg, leaf |-> kept[i].leaf,
          tags |-> Tags(kept[i].prims)]]

C11_PathsIssueSameCommands ==
  (Rendered /\ vxo) => Observable(trace) = Observable(DrawImmediate(lastArgs[1]))

(***************************************************************************)
(* C12.  Under the selection shader every surface draw, of an intersection *)
(* or a subtraction leaf, on either path, happens while the identifier     *)
(* uniform holds the index of the leaf drawn: the last upload before the   *)
(* draw exists and is that leaf's.                                         *)
(***************************************************************************)
IsUniform(e) == e.op = "glUniform3f"

\* the positions of the uploads before position i of the trace
UploadsBefore(i) == { k \in 1..(i - 1) : IsUniform(trace[k]) }

\* the greatest member of a non-empty set of numbers
Greatest(S) == CHOOSE m \in S : \A x \in S : x <= m

C12_UniformHoldsDrawnLeaf ==
  (Rendered /\ lastArgs = << "SELECT_RENDERING" >>) =>
    \A i \in 1..Len(trace) :
      IsSurface(trace[i]) =>
        /\ UploadsBefore(i) # {}
        /\ trace[Greatest(UploadsBefore(i))].rgb = Identifier(trace[i].leaf)

(***************************************************************************)
(* C13.  After prepare() has built the lists of a tree of P products,      *)
(* exactly P buffers (2P with indexing) have been generated, no two        *)
(* products' VertexStates share a buffer, and every generated handle is    *)
(* still in all_vbos_, also when several groups are present.               *)
(***************************************************************************)
\* prepare() has built the lists of a tree of at least one product
Built == vxo /\ ~aborted /\ Len(vbo_vertex_products) > 0

\* the buffers the VertexStates of the j-th retained product draw from
ProductVbos(j) ==
  { vbo_vertex_products[j].states[k].vbo :
      k \in { n \in 1..Len(vbo_vertex_products[j].states) :
                vbo_vertex_products[j].states[n].draws } }

C13_BuffersCountedDistinctTracked ==
  Built =>
    /\ gl_buffers = Len(TreeProducts) * VbosPerProduct
    /\ \A j, k \in 1..Len(vbo_vertex_products) :
         j # k => ProductVbos(j) \cap ProductVbos(k) = {}
    /\ \A h \in 1..gl_buffers : \E i \in 1..Len(all_vbos_) : all_vbos_[i] = h

(***************************************************************************)
(* C14.  On both paths, within draw() every glDepthFunc(GL_EQUAL) follows  *)
(* a compositor call immediately; the commands of every product end with   *)
(* glDepthFunc(GL_LEQUAL), issued after all surfaces of the product's       *)
(* leaves and before any command of the next product, so the depth          *)
(* function is GL_LEQUAL when a product's processing starts, when the       *)
(* compositor is called, and when draw() returns.                           *)
(***************************************************************************)
\* the depth function after the first i commands of the frame (GL_LEQUAL on entry)
DepthFuncAfter(i) ==
  LET set == { k \in 1..i : IsDepthFunc(trace[k]) }
  IN  IF set = {} THEN "GL_LEQUAL" ELSE trace[Greatest(set)].arg

C14_DepthFuncRestored ==
  Rendered =>
    LET lp == LeqPositions
    IN  /\ Len(lp) = Len(TreeProducts)
        /\ \A i \in 1..Len(trace) :
             /\ (IsDepthFunc(trace[i]) /\ trace[i].arg = "GL_EQUAL")
                  => (i > 1 /\ IsRender(trace[i - 1]))
             /\ IsRender(trace[i]) => DepthFuncAfter(i - 1) = "GL_LEQUAL"
        /\ \A t \in TreeLeaves : \A i \in 1..Len(trace) :
             (IsSurface(trace[i]) /\ trace[i].leaf = t.leaf.index) =>
               /\ i < lp[t.product]
               /\ t.product > 1 => lp[t.product - 1] < i
        /\ \A j \in 1..Len(lp) : DepthFuncAfter(lp[j]) = "GL_LEQUAL"
        /\ DepthFuncAfter(Len(trace)) = "GL_LEQUAL"

\* a frame of two products, the first composited, with a surface drawn under GL_EQUAL
C14_Witness ==
  /\ Rendered
  /\ Len(TreeProducts) = 2
  /\ \E i \in 1..Len(trace) : IsSurface(trace[i]) /\ DepthFuncAfter(i) = "GL_EQUAL"
  /\ \E i \in 1..Len(trace) : IsRender(trace[i]) /\ i < LeqPositions[1]

(***************************************************************************)
(* C15.  In the build, a leaf whose colour the resolver leaves alone is    *)
(* recorded with the colour last resolved for an earlier leaf of its       *)
(* product, and an intersection leaf is drawn once or as a culled pair     *)
(* according to the alpha of that retained colour (every surface of the    *)
(* product being written).                                                 *)
(***************************************************************************)
LeavesOf(p) == p.intersections \o p.subtractions

\* the positions before n, in product p, of leaves whose colour was resolved
ResolvedBefore(p, n) ==
  { m \in 1..(n - 1) : LeavesOf(p)[m].geom = "PolySet" /\ LeavesOf(p)[m].color.resolves }

\* the surface states recorded for leaf `index` in the j-th retained product
SurfaceStates(j, index) ==
  { k \in 1..Len(vbo_vertex_products[j].states) :
      /\ vbo_vertex_products[j].states[k].draws
      /\ vbo_vertex_products[j].states[k].range = index }

\* the lists retained are those of the whole tree
BuiltWhole == vxo /\ ~aborted /\ Len(vbo_vertex_products) = Len(TreeProducts)

C15_RetainedColourDecides ==
  BuiltWhole =>
    \A j \in 1..Len(TreeProducts) :
      LET p == TreeProducts[j].product
      IN  \A n \in 1..Len(LeavesOf(p)) :
            LET leaf == LeavesOf(p)[n]
                before == ResolvedBefore(p, n)
                retained == LeavesOf(p)[Greatest(before)].color.alpha
            IN  (/\ leaf.geom = "PolySet" /\ ~leaf.color.resolves /\ before # {}
                 /\ \A m \in 1..Len(LeavesOf(p)) : LeavesOf(p)[m].surface_ok) =>
                  /\ \A k \in SurfaceStates(j, leaf.index) :
                       vbo_vertex_products[j].states[k].color = retained
                  /\ n <= Len(p.intersections) =>
                       Cardinality(SurfaceStates(j, leaf.index))
                         = IF retained = Opaque THEN 1 ELSE 2

(***************************************************************************)
(* C16.  In the build, whenever writing the surface of a leaf with polygon *)
(* geometry leaves no surface state at the end of the product's list, the  *)
(* build aborts: a prepare() that built over such a leaf does not return.  *)
(***************************************************************************)
\* the last call was the prepare() that ran the build
RanBuild == lastOp = "prepare" /\ \E i \in 1..Len(trace) : trace[i].op = "glGenBuffers"

C16_MissingSurfaceAborts ==
  (RanBuild /\ \E t \in TreeLeaves : t.leaf.geom = "PolySet" /\ ~t.leaf.surface_ok) => aborted

(***************************************************************************)
(* C17.  Within a frame the surfaces are drawn group by group in the order *)
(* root, background, highlights; within a group product by product in list *)
(* order; within a product the intersection leaves in their order, then    *)
(* the subtraction leaves in theirs.  The replay of the retained lists     *)
(* draws in the same order.                                                *)
(***************************************************************************)
\* the indices of the leaves with polygon geometry, in the order claimed
PolySetIndices(ls) ==
  LET kept == SelectSeq(ls, LAMBDA l : l.geom = "PolySet")
  IN  [k \in 1..Len(kept) |-> kept[k].index]

DrawOrder ==
  LET tp == TreeProducts
  IN  Flatten([j \in 1..Len(tp) |->
                 PolySetIndices(tp[j].product.intersections)
                 \o PolySetIndices(tp[j].product.subtractions)])

\* the leaves drawn by the frame, in order, a leaf drawn twice in a row counted once
LeavesDrawn ==
  LET drawn == SelectSeq(trace, IsSurface)
      first == SelectSeq([i \in 1..Len(drawn) |-> i],
                         LAMBDA i : i = 1 \/ drawn[i].leaf # drawn[i - 1].leaf)
  IN  [k \in 1..Len(first) |-> drawn[first[k]].leaf]

C17_DrawOrder == Rendered => LeavesDrawn = DrawOrder

\* a frame that draws a leaf of the background group and then one of the highlights group
C17_Witness ==
  /\ Rendered
  /\ background_products.present
  /\ highlights_products.present
  /\ Len(LeavesDrawn) = 2
  /\ \E t \in TreeLeaves : t.background /\ t.leaf.index = LeavesDrawn[1]
  /\ \E t \in TreeLeaves : t.highlight /\ t.leaf.index = LeavesDrawn[2]

(***************************************************************************)
(* C18.  The identifier uploaded for a leaf is the three low bytes of its  *)
(* index, one per channel: it is r + 256 g + 65536 b of the index modulo   *)
(* 2^24, so two different indices below 2^24 get different triples, an     *)
(* index below 2^24 is recovered from its triple, and indices that differ  *)
(* only above bit 23 get the same triple.                                  *)
(***************************************************************************)
\* each upload of the frame with the leaf whose surface is drawn next
Uploads ==
  { [rgb |-> trace[k].rgb,
     index |-> trace[CHOOSE i \in (k + 1)..Len(trace) :
                       /\ IsSurface(trace[i])
                       /\ \A n \in (k + 1)..(i - 1) : ~IsSurface(trace[n])].leaf] :
      k \in { n \in 1..Len(trace) : IsUniform(trace[n]) } }

Recovered(rgb) == rgb[1] + 256 * rgb[2] + 65536 * rgb[3]

C18_IdentifierBytes ==
  (Rendered /\ lastArgs = << "SELECT_RENDERING" >>) =>
    /\ { u.index : u \in Uploads } = { t.leaf.index : t \in TreeLeaves }
    /\ \A u \in Uploads :
         /\ \A c \in 1..3 : u.rgb[c] \in 0..255
         /\ Recovered(u.rgb) = u.index % TwoTo24
         /\ u.index < TwoTo24 => Recovered(u.rgb) = u.index
    /\ \A u, v \in Uploads :
         /\ (u.index < TwoTo24 /\ v.index < TwoTo24 /\ u.index # v.index) => u.rgb # v.rgb
         /\ (u.index % TwoTo24 = v.index % TwoTo24) => u.rgb = v.rgb

\* a selection frame over two leaves whose indices differ only above bit 23
C18_Witness ==
  /\ Rendered
  /\ lastArgs = << "SELECT_RENDERING" >>
  /\ \E u, v \in Uploads : u.index # v.index /\ u.rgb = v.rgb /\ u.index >= TwoTo24
  /\ \E u \in Uploads : u.rgb[2] # 0

(***************************************************************************)
(* C19.  draw() changes nothing the renderer keeps: the tree, the retained *)
(* lists and the tracked handles are the same after it, so a draw() that   *)
(* follows a draw() with the same arguments issues the same commands; and  *)
(* on the buffer-build path a draw() with nothing built issues no          *)
(* compositor call and draws no surface.                                   *)
(***************************************************************************)
C19_DrawKeepsState ==
  [][ lastOp' = "draw" =>
        /\ UNCHANGED << root_products, highlights_products, background_products, vxo, indexing,
                        vbo_vertex_products, all_vbos_, gl_buffers, aborted >>
        /\ (lastOp = "draw" /\ lastArgs' = lastArgs) => trace' = trace
        /\ (vxo /\ Len(vbo_vertex_products) = 0) =>
             \A i \in 1..Len(trace') : ~IsRender(trace'[i]) /\ ~IsSurface(trace'[i]) ]_vars

\* a draw() on the buffer-build path before any prepare(), over a tree with a surface to draw
C19_Witness ==
  /\ lastOp = "draw"
  /\ vxo
  /\ Len(vbo_vertex_products) = 0
  /\ \E t \in TreeLeaves : t.leaf.geom = "PolySet"
  /\ trace = <<>>

(***************************************************************************)
(* C20.  On the immediate path every glPushMatrix is followed by the       *)
(* glPopMatrix of the same leaf before any other push or pop; a leaf that  *)
(* is skipped pushes and pops nothing; the compositor's callback on a      *)
(* primitive is balanced as well.  So the depth of the transform stack     *)
(* and the culling flag (disabled on entry) are at return what they were   *)
(* on entry.                                                               *)
(***************************************************************************)
IsPush(e) == e.op = "glPushMatrix"
IsPop(e) == e.op = "glPopMatrix"

\* pushes minus pops over the first i commands of es
StackDepth(es, i) ==
  Cardinality({ k \in 1..i : IsPush(es[k]) }) - Cardinality({ k \in 1..i : IsPop(es[k]) })

\* pushes and pops alternate, each pop being of the leaf just pushed
Balanced(es) ==
  LET pp == SelectSeq(es, LAMBDA e : IsPush(e) \/ IsPop(e))
  IN  /\ Len(pp) % 2 = 0
      /\ \A k \in 1..Len(pp) :
           IF k % 2 = 1 THEN IsPush(pp[k])
           ELSE IsPop(pp[k]) /\ pp[k].leaf = pp[k - 1].leaf
      /\ StackDepth(es, Len(es)) = 0

C20_StackAndCullingRestored ==
  (Rendered /\ ~vxo) =>
    /\ Balanced(trace)
    /\ \A i \in 0..Len(trace) : StackDepth(trace, i) \in {0, 1}
    /\ \A t \in TreeLeaves :
         Cardinality({ i \in 1..Len(trace) : IsPush(trace[i]) /\ trace[i].leaf = t.leaf.index })
           = IF t.leaf.geom = "PolySet" THEN 1 ELSE 0
    /\ \A i \in 1..Len(trace) :
         IsRender(trace[i]) =>
           \A k \in 1..Len(trace[i].prims) : Balanced(OpenCSGPrim_render(trace[i].prims[k]))
    /\ LET ct == CullTrace IN ~CullingEnabledAfter(ct, Len(ct))

\* an immediate frame over a product with a skipped leaf and a transparent leaf,
\* both handed to the compositor
C20_Witness ==
  /\ Rendered
  /\ ~vxo
  /\ \E t \in TreeLeaves : t.leaf.geom = "other" /\ t.type = "Intersection"
  /\ \E t \in PolySetLeaves("Intersection") :
       t.leaf.color.alpha < Opaque /\ SurfaceCount(trace, t.leaf.index) = 2
  /\ \E i \in 1..Len(trace) : IsRender(trace[i])

(***************************************************************************)
(* C21.  On the immediate path every primitive created for a product is    *)
(* deleted exactly once, within the commands of that product: after the    *)
(* compositor call and after every surface draw of the product, and so     *)
(* before any primitive of the next product is created; no primitive is    *)
(* handed to the compositor outside the span from its creation to its      *)
(* deletion.                                                               *)
(***************************************************************************)
IsNew(e) == e.op = "new"
IsDelete(e) == e.op = "delete"

\* the positions in es of the commands that satisfy Test
Positions(es, Test(_)) == { i \in 1..Len(es) : Test(es[i]) }

C21_PrimitivesReleasedOnce ==
  (Rendered /\ ~vxo) =>
    /\ OneSegmentPerProduct
    /\ \A j \in 1..Len(TreeProducts) :
         LET seg == Segment(j)
             news == Positions(seg, IsNew)
             dels == Positions(seg, IsDelete)
             uses == Positions(seg, LAMBDA e : IsRender(e) \/ IsSurface(e))
         IN  /\ \A i \in news :
                  /\ \E t \in TreeLeaves : t.product = j /\ t.leaf.index = seg[i].leaf
                  /\ Cardinality({ d \in dels : seg[d].leaf = seg[i].leaf }) = 1
                  /\ Cardinality({ n \in news : seg[n].leaf = seg[i].leaf }) = 1
             /\ \A d \in dels : \E i \in news : seg[i].leaf = seg[d].leaf
             /\ \A d \in dels : \A x \in news \cup uses : x < d
             /\ \A r \in Positions(seg, IsRender) :
                  /\ \A i \in news : i < r
                  /\ { seg[r].prims[k].leaf : k \in 1..Len(seg[r].prims) }
                       = { seg[i].leaf : i \in news }

\* an immediate frame of two products, each with a primitive of its own, the
\* first one drawing a surface before its primitive is deleted
C21_Witness ==
  /\ Rendered
  /\ ~vxo
  /\ Len(TreeProducts) = 2
  /\ OneSegmentPerProduct
  /\ \A j \in 1..2 : Positions(Segment(j), IsDelete) # {}
  /\ Positions(Segment(1), IsSurface) # {}
====
